---- MODULE Spec2Model ----
(***************************************************************************)
(* Model of Pearl's online-learning driver                                 *)
(* (pearl/online_learning/online_learning.py) and of the DeepExploration   *)
(* exploration module (deep_exploration.py).                               *)
(*                                                                         *)
(* Spec   : one call of episode_return, online_learning_returns or         *)
(*          online_learning_to_png_graph, against an arbitrary             *)
(*          environment (any reward of Rewards on each step, any done      *)
(*          flag, episodes of at most MaxSteps steps).                     *)
(* SpecDE : any interleaving of DeepExploration.act and .reset calls.      *)
(***************************************************************************)
EXTENDS Integers, Sequences, FiniteSets

\* ---------------------------------------------------------------- bounds
MaxEpisodes == 2    \* number_of_episodes ranges over 0..MaxEpisodes
MaxSteps    == 2    \* the environment reports done at the latest on this step
MaxBatch    == 3    \* agent.policy_learner.batch_size ranges over 1..MaxBatch
Rewards     == {-1, 2}   \* rewards the environment may return on a step

\* Optional values: None is the empty sequence, Some(x) a one-element one.
None    == <<>>
Some(x) == <<x>>
DefaultFilename == "returns.png"
Filenames == {None, Some(""), Some(DefaultFilename)}

VARIABLES
  \* --- arguments of the call (fixed by Init)
  entry,               \* the function called
  number_of_episodes, learn, exploit, learn_after_episode, dynamic_size,
  filename,
  batch_size,          \* agent.policy_learner.batch_size
  \* --- locals of online_learning / episode_return
  pc,                  \* position in the code
  episode,             \* iterations of "for _ in range(number_of_episodes)" completed
  g, step, done,
  returns,             \* the list of online_learning_returns
  \* --- the outside world, as seen by the calls made
  calls,               \* agent/env calls of the current (or last) episode, in order
  episode_returns,     \* values returned by episode_return so far, in order
  rendered,            \* matplotlib calls made, in order
  figureOpen,          \* pyplot holds a current figure
  fileWritten,         \* an image file (whole or partial) exists
  \* --- DeepExploration and its q_ensemble_network
  epistemic_index,     \* the network's active ensemble member
  selected,            \* member drawn by the most recent resample
  resets, resamples,   \* reset() calls / resample_epistemic_index() calls
  queried,             \* members that answered an act since the last reset
  memberQ,             \* Q-function (action -> value) of the member that
                       \* answered the last act, at the state given
  forwardPasses,       \* get_q_values calls made by the last act
  batch,               \* action_batch of the last act (rows of one-hot vectors)
  q_values,            \* tensor returned by the last forward pass
  actArgs,             \* optional arguments of the last act
  actResult            \* value returned by the last act

olVars == <<entry, number_of_episodes, learn, exploit, learn_after_episode,
            dynamic_size, filename, batch_size, pc, episode, g, step, done,
            returns, calls, episode_returns, rendered, figureOpen, fileWritten>>
deVars == <<epistemic_index, selected, resets, resamples, queried, memberQ,
            forwardPasses, batch, q_values, actArgs, actResult>>
vars == <<olVars, deVars>>

\* ------------------------------------------------------------ call records
Call(op) == [op |-> op, exploit |-> FALSE, reward |-> 0, done |-> FALSE,
             override |-> FALSE, batch_size |-> 0, dynamic_size |-> FALSE]
EnvReset      == Call("env.reset")
AgentReset    == Call("agent.reset")
Act(e)        == [Call("agent.act") EXCEPT !.exploit = e]
EnvStep(r, d) == [Call("env.step") EXCEPT !.reward = r, !.done = d]
Observe(r, d) == [Call("agent.observe") EXCEPT !.reward = r, !.done = d]
\* agent.learn(dynamic_size=d)
LearnDefault(d) == [Call("agent.learn") EXCEPT !.dynamic_size = d]
\* agent.learn(batch_size=b, dynamic_size=d)
LearnWithBatch(b, d) ==
  [Call("agent.learn") EXCEPT !.override = TRUE, !.batch_size = b, !.dynamic_size = d]

\* ------------------------------------------------------------ episode_return
GInit == 0
DoneInitMutant == TRUE
DoneInit == FALSE
StepInit == 1

AccumulateMutant(acc, reward) == reward
Accumulate(acc, reward) == acc + reward

\* lines 125-126: the learning update inside the loop
StepLearnMutant(l, lae, d) == IF l THEN <<LearnDefault(d)>> ELSE <<>>
StepLearn(l, lae, d) == IF l /\ ~lae THEN <<LearnDefault(d)>> ELSE <<>>

\* lines 130-135: the learning update after the loop
PostLoopLearnMutant(l, lae, bs, st, d) ==
  IF l /\ lae
    THEN IF bs >= st - 1 THEN <<LearnWithBatch(st - 1, d)>> ELSE <<LearnDefault(d)>>
    ELSE <<>>
PostLoopLearn(l, lae, bs, st, d) ==
  IF l /\ lae
    THEN IF bs > st - 1 THEN <<LearnWithBatch(st - 1, d)>> ELSE <<LearnDefault(d)>>
    ELSE <<>>

\* lines 115-119
EpisodeStart ==
  /\ pc = "episode_start"
  /\ g' = GInit
  /\ calls' = <<EnvReset, AgentReset>>
  /\ done' = DoneInit
  /\ step' = StepInit
  /\ pc' = "while"
  /\ UNCHANGED <<entry, number_of_episodes, learn, exploit, learn_after_episode,
                 dynamic_size, filename, batch_size, episode, returns,
                 episode_returns, rendered, figureOpen, fileWritten>>
  /\ UNCHANGED deVars

\* lines 120-128: one iteration of "while not done"
EpisodeStep ==
  /\ pc = "while"
  /\ ~done
  /\ \E r \in Rewards, d \in BOOLEAN :
       /\ step >= MaxSteps => d
       /\ g' = Accumulate(g, r)
       /\ calls' = calls \o <<Act(exploit), EnvStep(r, d), Observe(r, d)>>
                         \o StepLearn(learn, learn_after_episode, dynamic_size)
       /\ done' = d
  /\ step' = step + 1
  /\ UNCHANGED <<entry, number_of_episodes, learn, exploit, learn_after_episode,
                 dynamic_size, filename, batch_size, pc, episode, returns,
                 episode_returns, rendered, figureOpen, fileWritten>>
  /\ UNCHANGED deVars

\* lines 120 (loop exit), 130-137
EpisodeFinish ==
  /\ pc = "while"
  /\ done
  /\ calls' = calls \o PostLoopLearn(learn, learn_after_episode, batch_size,
                                     step, dynamic_size)
  /\ episode_returns' = Append(episode_returns, g)
  /\ pc' = IF entry = "episode_return" THEN "done" ELSE "process_return"
  /\ UNCHANGED <<entry, number_of_episodes, learn, exploit, learn_after_episode,
                 dynamic_size, filename, batch_size, episode, g, step, done,
                 returns, rendered, figureOpen, fileWritten>>
  /\ UNCHANGED deVars

\* ----------------------------------------------------------- online_learning
ForContinuesMutant(i, n) == i <= n
ForContinues(i, n) == i < n

\* line 33
ShouldPlotAlways(f) == TRUE
ShouldPlotNonEmpty(f) == f # None /\ f # Some("")
ShouldPlot(f) == f # None

RenderSteps == <<"plot", "title", "xlabel", "ylabel", "savefig", "close">>
RenderPcs == {RenderSteps[i] : i \in 1..Len(RenderSteps)}

\* where control goes when online_learning returns to its caller
AfterLoop ==
  IF entry = "online_learning_to_png_graph" /\ ShouldPlot(filename)
    THEN RenderSteps[1] ELSE "done"

\* line 81: the head of "for _ in range(number_of_episodes)"
OnlineLearningFor ==
  /\ pc = "for"
  /\ pc' = IF ForContinues(episode, number_of_episodes)
             THEN "episode_start" ELSE AfterLoop
  /\ UNCHANGED <<entry, number_of_episodes, learn, exploit, learn_after_episode,
                 dynamic_size, filename, batch_size, episode, g, step, done,
                 returns, calls, episode_returns, rendered, figureOpen,
                 fileWritten>>
  /\ UNCHANGED deVars

\* line 90 with the sink of line 56: returns.append(g)
Sink(rs, x) == Append(rs, x)

ProcessReturn ==
  /\ pc = "process_return"
  /\ returns' = Sink(returns, g)
  /\ episode' = episode + 1
  /\ pc' = "for"
  /\ UNCHANGED <<entry, number_of_episodes, learn, exploit, learn_after_episode,
                 dynamic_size, filename, batch_size, g, step, done, calls,
                 episode_returns, rendered, figureOpen, fileWritten>>
  /\ UNCHANGED deVars

\* ------------------------------------------------ online_learning_to_png_graph
RenderCall(name) ==
  [name |-> name, arg |-> IF name = "savefig" THEN filename ELSE None]

NextRenderPc(p) ==
  IF p = "close" THEN "done"
  ELSE RenderSteps[1 + CHOOSE i \in 1..Len(RenderSteps) : RenderSteps[i] = p]

\* lines 35-40: one pyplot call; every call but close may raise, and the
\* exception leaves the function at once (there is no try/finally)
Render ==
  /\ pc \in RenderPcs
  /\ rendered' = Append(rendered, RenderCall(pc))
  /\ \E ok \in BOOLEAN :
       /\ pc = "close" => ok
       /\ pc' = IF ok THEN NextRenderPc(pc) ELSE "raised"
       /\ figureOpen' = IF pc = "close" THEN FALSE ELSE TRUE
       /\ IF pc = "savefig"
            THEN IF ok THEN fileWritten' = TRUE ELSE fileWritten' \in BOOLEAN
            ELSE fileWritten' = fileWritten
  /\ UNCHANGED <<entry, number_of_episodes, learn, exploit, learn_after_episode,
                 dynamic_size, filename, batch_size, episode, g, step, done,
                 returns, calls, episode_returns>>
  /\ UNCHANGED deVars

\* ------------------------------------------------------------ DeepExploration
EnsembleSize == 2   \* members of the q_ensemble_network
MaxActions   == 4   \* action_space.n ranges over 1..MaxActions
MaxResets    == 2   \* reset() is called at most this many times
QVals        == {0, 1}   \* values a Q-network may output
\* One subjective state suffices: the Q-function of the answering member at
\* the given state (mq in DEAct) is drawn afresh on every call.
States       == {0}

\* F.one_hot(torch.arange(0, n)): row k (counted from 1) encodes action k-1
OneHot(a, n) == [j \in 0..(n - 1) |-> IF j = a THEN 1 ELSE 0]
ActionBatch(n) == [k \in 1..n |-> OneHot(k - 1, n)]
\* torch.repeat_interleave(state.unsqueeze(0), n, dim=0)
StatesRepeated(s, n) == [k \in 1..n |-> s]

\* the action a one-hot row stands for
Decode(row) == CHOOSE j \in DOMAIN row : row[j] = 1

\* q_ensemble_network.get_q_values(..., persistent=p): the member that
\* answers is the active one when persistent, a freshly drawn one otherwise
GetQValuesMember(z, p, fresh) == IF p THEN z ELSE fresh
\* the forward pass: one value per row of the batch, by member Q-function mq
GetQValues(mq, action_batch) ==
  [k \in 1..Len(action_batch) |-> mq[Decode(action_batch[k])]]

\* line 64: persistent=True
ActPersistentMutant == FALSE
ActPersistent == TRUE

\* torch.argmax(q).view((-1)).item(): a 0-based index of a maximal entry;
\* which one among equal maxima is left to the library
ArgmaxMasked(q, opt) ==
  {k - 1 : k \in {i \in 1..Len(q) :
       /\ i - 1 # opt.unavailable
       /\ \A j \in 1..Len(q) : j - 1 # opt.unavailable => q[j] <= q[i]}}
ArgmaxMutant(q, opt) ==
  IF opt.exploit_action >= 0 THEN {opt.exploit_action}
  ELSE IF ArgmaxMasked(q, opt) # {} THEN ArgmaxMasked(q, opt) ELSE {0}
Argmax(q, opt) ==
  {k - 1 : k \in {i \in 1..Len(q) : \A j \in 1..Len(q) : q[j] <= q[i]}}

\* optional arguments of act; -1 stands for None
NoArgs == [exploit_action |-> -1, unavailable |-> -1,
           values_given |-> FALSE, representation_given |-> FALSE]
OptArgs(n) ==
  {NoArgs} \cup
  {[exploit_action |-> 0, unavailable |-> u,
    values_given |-> TRUE, representation_given |-> TRUE] : u \in 0..(n - 1)}

\* lines 49-67
DEAct ==
  /\ \E n \in 1..MaxActions :
     \E s \in States, mq \in [0..(n - 1) -> QVals], opt \in OptArgs(n),
        fresh \in (IF ActPersistent THEN {epistemic_index} ELSE 1..EnsembleSize) :
       /\ batch' = [states |-> StatesRepeated(s, n), actions |-> ActionBatch(n)]
       /\ queried' = queried \cup
                      {GetQValuesMember(epistemic_index, ActPersistent, fresh)}
       /\ memberQ' = mq
       /\ q_values' = GetQValues(mq, ActionBatch(n))
       /\ forwardPasses' = 1
       /\ actArgs' = opt
       /\ actResult' \in Argmax(GetQValues(mq, ActionBatch(n)), opt)
  /\ UNCHANGED <<epistemic_index, selected, resets, resamples>>
  /\ UNCHANGED olVars

\* q_ensemble_network.resample_epistemic_index()
ResampleEpistemicIndex(z) ==
  /\ epistemic_index' = z
  /\ selected' = z
  /\ resamples' = resamples + 1

\* lines 69-72
DEReset ==
  /\ resets < MaxResets
  /\ resets' = resets + 1
  /\ \E z \in 1..EnsembleSize : ResampleEpistemicIndex(z)
  /\ queried' = {}
  /\ UNCHANGED <<memberQ, forwardPasses, batch, q_values, actArgs, actResult>>
  /\ UNCHANGED olVars

\* ------------------------------------------------------------ specifications
Entries == {"episode_return", "online_learning_returns",
            "online_learning_to_png_graph"}

OLIdle ==
  /\ entry = "episode_return" /\ number_of_episodes = 0
  /\ learn = FALSE /\ exploit = TRUE /\ learn_after_episode = FALSE
  /\ dynamic_size = FALSE /\ filename = None /\ batch_size = 1
  /\ pc = "done" /\ episode = 0 /\ g = 0 /\ step = 0 /\ done = FALSE
  /\ returns = <<>> /\ calls = <<>> /\ episode_returns = <<>>
  /\ rendered = <<>> /\ figureOpen = FALSE /\ fileWritten = FALSE

DEIdle ==
  /\ epistemic_index = 1 /\ selected = 1 /\ resets = 0 /\ resamples = 0
  /\ queried = {} /\ memberQ = <<>> /\ forwardPasses = 0
  /\ batch = [states |-> <<>>, actions |-> <<>>]
  /\ q_values = <<>> /\ actArgs = NoArgs /\ actResult = -1

Init ==
  /\ entry \in Entries
  /\ batch_size \in 1..MaxBatch
  /\ learn_after_episode \in BOOLEAN
  /\ dynamic_size \in BOOLEAN
  /\ IF entry = "episode_return"
       THEN /\ learn \in BOOLEAN /\ exploit \in BOOLEAN
            /\ number_of_episodes = 1
            /\ pc = "episode_start"
       ELSE \* online_learning always passes learn=True, exploit=False
            /\ learn = TRUE /\ exploit = FALSE
            /\ number_of_episodes \in 0..MaxEpisodes
            /\ pc = "for"
  /\ IF entry = "online_learning_to_png_graph"
       THEN filename \in Filenames ELSE filename = None
  /\ episode = 0 /\ g = 0 /\ step = 0 /\ done = FALSE
  /\ returns = <<>> /\ calls = <<>> /\ episode_returns = <<>>
  /\ rendered = <<>> /\ figureOpen = FALSE /\ fileWritten = FALSE
  /\ DEIdle

Next ==
  \/ OnlineLearningFor
  \/ EpisodeStart
  \/ EpisodeStep
  \/ EpisodeFinish
  \/ ProcessReturn
  \/ Render

Spec == Init /\ [][Next]_vars

InitDE ==
  /\ OLIdle
  /\ epistemic_index \in 1..EnsembleSize
  /\ selected = epistemic_index
  /\ resets = 0 /\ resamples = 0
  /\ queried = {} /\ memberQ = <<>> /\ forwardPasses = 0
  /\ batch = [states |-> <<>>, actions |-> <<>>]
  /\ q_values = <<>> /\ actArgs = NoArgs /\ actResult = -1

NextDE ==
  \/ DEAct
  \/ DEReset

SpecDE == InitDE /\ [][NextDE]_vars

\* ------------------------------------------------------------------ helpers
Last(sq) == sq[Len(sq)]
IsPrefix(p, sq) == Len(p) <= Len(sq) /\ \A i \in 1..Len(p) : p[i] = sq[i]
CallsOf(op) == {i \in 1..Len(calls) : calls[i].op = op}
StepsTaken == Cardinality(CallsOf("env.step"))
LearnCalls == Cardinality(CallsOf("agent.learn"))
FixedReward(r) == \A i \in CallsOf("env.step") : calls[i].reward = r
PngEntry == entry = "online_learning_to_png_graph"
EpisodeRunning == pc \in {"episode_start", "while"}
\* episode_return has returned and calls is the complete log of that episode
EpisodeReturned == ~EpisodeRunning /\ episode_returns # <<>>
\* online_learning has returned to its caller
LoopExited ==
  /\ entry # "episode_return"
  /\ pc \notin {"for", "episode_start", "while", "process_return"}
Exited == pc \in {"done", "raised"}
FullRender == [i \in 1..Len(RenderSteps) |-> RenderCall(RenderSteps[i])]

\* ------------------------------------------------------------------- claims

\* C1: online_learning calls the sink exactly once per completed episode,
\* after the episode has returned and before any call of the next episode,
\* so that online_learning_returns returns exactly number_of_episodes
\* elements, the i-th being the return of the i-th episode run.
C1_ReturnsPerEpisode ==
  entry # "episode_return" =>
    /\ EpisodeRunning => returns = episode_returns /\ Len(returns) = episode
    /\ pc = "process_return" => episode_returns = Append(returns, g)
    /\ LoopExited => /\ Len(returns) = number_of_episodes
                     /\ returns = episode_returns
C1_Witness ==
  /\ entry = "online_learning_returns" /\ pc = "done"
  /\ number_of_episodes = 2 /\ Len(returns) = 2 /\ returns[1] # returns[2]

\* C2: when every step of an episode yields the same reward r and done is
\* reported on the k-th step, episode_return returns r * k, whatever the
\* learn, exploit and learn_after_episode flags; the sum restarts from zero
\* on each call and includes the terminal step's reward.
C2_FixedRewardReturn ==
  EpisodeReturned =>
    \A r \in Rewards : FixedReward(r) => Last(episode_returns) = r * StepsTaken
C2_Witness ==
  /\ EpisodeReturned /\ Len(episode_returns) = 2 /\ episode_returns[1] # 0
  /\ FixedReward(2) /\ StepsTaken = 2 /\ Last(episode_returns) = 4

\* C3: with learn and learn_after_episode, one learn call is made, after the
\* loop; it carries batch_size = s when the s steps taken are fewer than the
\* agent's batch size, no batch_size otherwise, and dynamic_size either way.
C3_LearnAfterEpisode ==
  (EpisodeReturned /\ learn /\ learn_after_episode) =>
    /\ LearnCalls = 1
    /\ Last(calls).op = "agent.learn"
    /\ Last(calls).dynamic_size = dynamic_size
    /\ IF StepsTaken < batch_size
         THEN Last(calls).override /\ Last(calls).batch_size = StepsTaken
         ELSE ~Last(calls).override
C3_Witness ==
  /\ EpisodeReturned /\ learn /\ learn_after_episode /\ dynamic_size
  /\ StepsTaken = 2 /\ batch_size = 3
  /\ Last(calls) = LearnWithBatch(2, TRUE)

\* C4: every episode starts with one environment reset followed by one agent
\* reset, before any act, and a whole act, step, observe cycle precedes the
\* first look at the environment's done flag: no episode ends after zero steps.
C4_ResetThenAtLeastOneStep ==
  (pc = "while" \/ EpisodeReturned) =>
    /\ Len(calls) >= 2 /\ calls[1] = EnvReset /\ calls[2] = AgentReset
    /\ CallsOf("env.reset") = {1} /\ CallsOf("agent.reset") = {2}
    /\ (done \/ EpisodeReturned) =>
         /\ StepsTaken >= 1 /\ Len(calls) >= 5
         /\ calls[3].op = "agent.act" /\ calls[4].op = "env.step"
         /\ calls[5].op = "agent.observe"
C4_Witness ==
  /\ EpisodeReturned /\ StepsTaken = 1 /\ calls[4].done
  /\ step = 2

\* C10: with learn and not learn_after_episode there is one learn call right
\* after each observe (the terminal one included), without batch_size, and
\* none after the loop; with learn false there is none.  An episode of k
\* steps makes k, 1 or 0 learn calls.
C10_LearnPerStep ==
  EpisodeReturned =>
    /\ (learn /\ ~learn_after_episode) =>
         /\ LearnCalls = StepsTaken
         /\ \A i \in CallsOf("agent.observe") :
              i < Len(calls) /\ calls[i + 1] = LearnDefault(dynamic_size)
         /\ \A i \in CallsOf("agent.learn") : calls[i - 1].op = "agent.observe"
    /\ (learn /\ learn_after_episode) => LearnCalls = 1
    /\ ~learn => LearnCalls = 0
C10_Witness ==
  /\ EpisodeReturned /\ learn /\ ~learn_after_episode
  /\ StepsTaken = 2 /\ LearnCalls = 2 /\ Last(calls).op = "agent.learn"

\* C7: with filename None, online_learning_to_png_graph runs all its episodes
\* and makes no pyplot call and no file.
C7_NoneNoRendering ==
  (PngEntry /\ filename = None) =>
    /\ rendered = <<>> /\ ~fileWritten /\ ~figureOpen
    /\ pc # "raised"
    /\ pc = "done" => Len(episode_returns) = number_of_episodes
C7_Witness ==
  /\ PngEntry /\ filename = None /\ pc = "done"
  /\ number_of_episodes = 2 /\ Len(episode_returns) = 2

\* C8 as claimed: with the empty string as filename nothing is rendered or
\* written, as with None.
C8_EmptySkipsLikeNone ==
  (PngEntry /\ filename = Some("")) => rendered = <<>> /\ ~fileWritten

\* C8 amended: only None skips the rendering; with the empty string the
\* pyplot calls plot, title, xlabel, ylabel, savefig("") and close are made
\* in that order, up to the first one that raises.
C8_EmptyIsRendered ==
  (PngEntry /\ filename = Some("") /\ Exited) =>
    /\ rendered # <<>> /\ IsPrefix(rendered, FullRender)
    /\ rendered[1].name = "plot"
    /\ pc = "done" => rendered = FullRender /\ fileWritten
C8_Witness ==
  /\ PngEntry /\ filename = Some("") /\ pc = "done"
  /\ Len(rendered) = 6 /\ rendered[5] = [name |-> "savefig", arg |-> Some("")]
  /\ number_of_episodes = 1

\* C9: on the plotting path the figure acquired by pyplot is closed on every
\* way out of online_learning_to_png_graph, a failing rendering call included.
C9_FigureAlwaysClosed ==
  (PngEntry /\ filename # None /\ Exited) => ~figureOpen

\* C5: between two resets every act is answered by the ensemble member the
\* latest reset selected; a reset resamples the epistemic index exactly once
\* and act leaves the index alone.
C5_TemporallyConsistent ==
  /\ resamples = resets
  /\ epistemic_index = selected
  /\ queried \subseteq {selected}
C5_Witness ==
  /\ resets = 2 /\ selected = 2 /\ queried = {2} /\ q_values # <<>>

\* C6: for n >= 1 actions, act runs one forward pass of the active member
\* over the n (state, one-hot action) pairs and returns an action of maximal
\* estimated value -- action 2 when that member rates it strictly highest
\* among 4 -- whatever the optional arguments are.
C6_Greedy ==
  q_values # <<>> =>
    LET n == Len(q_values) IN
      /\ forwardPasses = 1
      /\ n >= 1 /\ Len(batch.actions) = n /\ Len(batch.states) = n
      /\ \A k \in 1..n : /\ batch.actions[k] = OneHot(k - 1, n)
                         /\ batch.states[k] = batch.states[1]
                         /\ q_values[k] = memberQ[k - 1]
      /\ queried \subseteq {epistemic_index}
      /\ actResult \in 0..(n - 1)
      /\ \A a \in 0..(n - 1) : memberQ[a] <= memberQ[actResult]
      /\ (n = 4 /\ \A a \in {0, 1, 3} : memberQ[a] < memberQ[2]) => actResult = 2
C6_Witness ==
  /\ q_values = <<0, 0, 1, 0>> /\ actResult = 2
  /\ actArgs.unavailable = 2 /\ actArgs.exploit_action = 0
  /\ actArgs.values_given /\ actArgs.representation_given
====
